---- MODULE Spec2Model ----
(***************************************************************************)
(* Model of the churn health dashboard (streamlit_app.py): the Scorer      *)
(* predict_health_scores, the top-5 selection, and the automatic e-mail    *)
(* outreach block with its session_state idempotency flag.                 *)
(*                                                                         *)
(* Numbers in [0,1] (churn probability, health_score, the bin edges of     *)
(* pd.cut) are fixed-point integers in units of 1/Scale.                   *)
(* The classifier is external and opaque: each row carries, in the field   *)
(* churn_prob, the positive-class probability the classifier returns for   *)
(* that row's feature vector.  churn_prob is not a column of the table.    *)
(* The complaint text only feeds the prompt; it is kept as a column name.  *)
(***************************************************************************)
EXTENDS Integers, Sequences, FiniteSets, TLC

VARIABLES
    env,              \* os.environ: [gemini_key : BOOLEAN, smtp : set of SMTP_* names set]
    uploaded_file,    \* st.file_uploader value: [name, columns, rows]; NoFile when none
    df,               \* the caller's DataFrame (pd.read_csv result passed to the Scorer)
    results,          \* the table predict_health_scores returned
    top_5,            \* results.sort_values("health_score").head(5)
    pc,               \* position of the script run
    i,                \* position of the outreach loop in top_5 (1-based)
    email_content,    \* what generate_email returned for the current customer
    email_reports,    \* the local list email_reports of the running pass
    emails_sent,      \* keys k with st.session_state["emails_sent_" + k] set
    stored_reports,   \* st.session_state["email_reports_" + k], k in emails_sent
    displayed,        \* the delivery report table on screen: [shown, rows, replayed]
    log,              \* the external calls of the current script run, in order
    passes,           \* history: per key, how many dispatch passes were started
    first_report      \* history: per key, the report recorded by the first pass

vars == <<env, uploaded_file, df, results, top_5, pc, i, email_content,
          email_reports, emails_sent, stored_reports, displayed, log, passes,
          first_report>>

-----------------------------------------------------------------------------
(* Bounds and program constants *)

\* fixed-point unit: the bins of pd.cut have two decimals
Scale == 100

\* head(5)
TopN == 5

\* largest table drawn for the Scorer
MaxRows == 6

\* most rows of a drawn table that share one churn probability
MaxTie == 2

\* cap of the history counter passes
MaxPasses == 2

\* bins=[-0.01, 0.3, 0.7, 1.0]
bins == <<-1, 30, 70, 100>>

\* labels=["High Risk", "Medium Risk", "Healthy"]
labels == <<"High Risk", "Medium Risk", "Healthy">>

NaN == "NaN"

-----------------------------------------------------------------------------
(* Tables *)

EmptyTable == [columns |-> {}, rows |-> <<>>]

NoFile == [name |-> "", columns |-> {}, rows |-> <<>>]

Table(f) == [columns |-> f.columns, rows |-> f.rows]

\* a cell of the TotalCharges column as read from the CSV (dtype object)
Raw(s) == [dtype |-> "object", v |-> s]

\* pd.to_numeric(..., errors="coerce"): the decimal string parsed (in units of
\* 1/Scale), NaN for anything that is no number
to_numeric(cell) ==
    IF cell.dtype = "float64" THEN cell
    ELSE CASE cell.v = "29.85" -> [dtype |-> "float64", v |-> "2985"]
           [] cell.v = "100.5" -> [dtype |-> "float64", v |-> "10050"]
           [] cell.v = "0"     -> [dtype |-> "float64", v |-> "0"]
           [] OTHER            -> [dtype |-> "float64", v |-> NaN]

\* .fillna(0)
fillna0(cell) == IF cell.v = NaN THEN [dtype |-> "float64", v |-> "0"] ELSE cell

\* model.predict_proba(df_features)[:, 1] for one row
predict_proba(row) == row.churn_prob

\* np.searchsorted(bins, x, side="left"): how many bin edges are below x
searchsorted(b, x) == Cardinality({k \in 1..Len(b) : b[k] < x})

CutLeftClosed(x) ==
    LET ids == Cardinality({k \in 1..Len(bins) : bins[k] <= x})
    IN  IF ids = 0 \/ ids = Len(bins) THEN NaN ELSE labels[ids]

\* pd.cut(x, bins, labels) with right=True, include_lowest=False
cut(x) ==
    LET ids == searchsorted(bins, x)
    IN  IF ids = 0 \/ ids = Len(bins) THEN NaN ELSE labels[ids]

RECURSIVE SortedOrders(_, _)
\* every order of the row positions S of rows that is ascending in
\* health_score: sort_values uses the default kind="quicksort", which is not
\* stable, so rows of equal health_score come out in any order
SortedOrders(rows, S) ==
    IF S = {} THEN {<<>>}
    ELSE LET least == {k \in S : \A j \in S : rows[k].health_score <= rows[j].health_score}
         IN  UNION {{<<k>> \o rest : rest \in SortedOrders(rows, S \ {k})} : k \in least}

RECURSIVE DescendingOrders(_, _)
DescendingOrders(rows, S) ==
    IF S = {} THEN {<<>>}
    ELSE LET most == {k \in S : \A j \in S : rows[k].health_score >= rows[j].health_score}
         IN  UNION {{<<k>> \o rest : rest \in DescendingOrders(rows, S \ {k})} : k \in most}

SortDescending(t) ==
    {[columns |-> t.columns, rows |-> [k \in 1..Len(o) |-> t.rows[o[k]]]] :
        o \in DescendingOrders(t.rows, 1..Len(t.rows))}

\* df.sort_values("health_score"): the tables it can return
sort_values(t) ==
    {[columns |-> t.columns, rows |-> [k \in 1..Len(o) |-> t.rows[o[k]]]] :
        o \in SortedOrders(t.rows, 1..Len(t.rows))}

\* .head(n)
head(t, n) ==
    [columns |-> t.columns,
     rows |-> SubSeq(t.rows, 1, IF Len(t.rows) < n THEN Len(t.rows) ELSE n)]

\* lines 29-30 and 40-41: what the call leaves in the caller's DataFrame
ScoredInPlace(t) ==
    [columns |-> t.columns \cup {"health_score"},
     rows |-> [k \in 1..Len(t.rows) |->
        LET r == t.rows[k]
            c == IF "TotalCharges" \in t.columns
                 THEN [r EXCEPT !.TotalCharges = fillna0(to_numeric(r.TotalCharges))]
                 ELSE r
        IN  [f \in DOMAIN c \cup {"health_score"} |->
                IF f = "health_score" THEN Scale - predict_proba(r) ELSE c[f]]]]

\* lines 44-49: Rank and Risk_Level of a sorted table
Ranked(t) ==
    [columns |-> t.columns \cup {"Rank", "Risk_Level"},
     rows |-> [k \in 1..Len(t.rows) |->
        LET r == t.rows[k]
        IN  [f \in DOMAIN r \cup {"Rank", "Risk_Level"} |->
                IF f = "Rank" THEN (k - 1) + 1
                ELSE IF f = "Risk_Level" THEN cut(r.health_score)
                ELSE r[f]]]]

PredictDescending(t) ==
    LET d == ScoredInPlace(t)
    IN  {[df |-> d, df_sorted |-> Ranked(s)] : s \in SortDescending(d)}

\* lines 32-35: the IDs, synthesized as 0..N-1 without a customerID column;
\* the function never uses ids afterwards
ids(t) ==
    IF "customerID" \in t.columns
    THEN [k \in 1..Len(t.rows) |-> t.rows[k].customerID]
    ELSE [k \in 1..Len(t.rows) |-> k - 1]

\* predict_health_scores(df): every outcome [df, df_sorted] of the call, df
\* the caller's table after it and df_sorted the table returned
predict_health_scores(t) ==
    LET d == ScoredInPlace(t)
    IN  {[df |-> d, df_sorted |-> Ranked(s)] : s \in sort_values(d)}

\* line 157
Top5(res) == {head(s, TopN) : s \in sort_values(res)}

-----------------------------------------------------------------------------
(* Inputs *)

IdNames == <<"0001-TEST", "0002-TEST", "0003-TEST", "0004-TEST",
             "0005-TEST", "0006-TEST", "0007-TEST", "0008-TEST">>

Emails == <<"0001@telecommail.com", "0002@telecommail.com", "0003@telecommail.com",
            "0004@telecommail.com", "0005@telecommail.com", "0006@telecommail.com",
            "0007@telecommail.com", "0008@telecommail.com">>

\* TotalCharges as it stands in the CSV: row 2 holds a blank
RawTotalCharges(k) == IF k = 2 THEN Raw(" ") ELSE IF k = 1 THEN Raw("29.85") ELSE Raw("100.5")

AllColumns == {"customerID", "email", "complaint", "TotalCharges"}

Row(k, p) ==
    [customerID |-> IdNames[k], email |-> Emails[k],
     TotalCharges |-> RawTotalCharges(k), churn_prob |-> p]

\* churn probabilities of the drawn multi-row tables (health 0.9, 0.3, 0.1)
ProbChoices == {10, 70, 90}

TieBounded(ps) ==
    \A p \in ProbChoices : Cardinality({k \in DOMAIN ps : ps[k] = p}) <= MaxTie

ScoreInputs ==
    {[name |-> "test_customers.csv", columns |-> AllColumns,
      rows |-> [k \in 1..1 |-> Row(1, p)]] : p \in 0..Scale}
    \cup
    UNION {{[name |-> "test_customers.csv", columns |-> AllColumns,
             rows |-> [k \in 1..n |-> Row(k, ps[k])]] :
                ps \in {q \in [1..n -> ProbChoices] : TieBounded(q)}} : n \in 2..MaxRows}

-----------------------------------------------------------------------------
(* The Scorer on its own: ScoreSpec *)

NoReport == [shown |-> FALSE, replayed |-> FALSE, rows |-> <<>>]

Keys == {<<"a.csv", 5>>, <<"b.csv", 2>>}

SessionIdle ==
    /\ i = 0
    /\ email_content = "None"
    /\ email_reports = <<>>
    /\ emails_sent = {}
    /\ stored_reports = [k \in Keys |-> <<>>]
    /\ displayed = NoReport
    /\ log = <<>>
    /\ passes = [k \in Keys |-> 0]
    /\ first_report = [k \in Keys |-> <<>>]

SmtpVars == {"SMTP_FROM_EMAIL", "SMTP_SERVER", "SMTP_PORT", "SMTP_USER", "SMTP_PASSWORD"}

ScoreInit ==
    /\ env = [gemini_key |-> TRUE, smtp |-> SmtpVars]
    /\ uploaded_file \in ScoreInputs
    /\ df = Table(uploaded_file)
    /\ results = EmptyTable
    /\ top_5 = EmptyTable
    /\ pc = "parsed"
    /\ SessionIdle

\* line 155: results = predict_health_scores(df)
CallPredict ==
    /\ pc = "parsed"
    /\ \E out \in predict_health_scores(df) :
          /\ df' = out.df
          /\ results' = out.df_sorted
    /\ pc' = "scored"
    /\ UNCHANGED <<env, uploaded_file, top_5, i, email_content, email_reports,
                   emails_sent, stored_reports, displayed, log, passes, first_report>>

\* line 157: top_5 = results.sort_values("health_score").head(5)
SelectTop5 ==
    /\ pc = "scored"
    /\ top_5' \in Top5(results)
    /\ pc' = "selected"
    /\ UNCHANGED <<env, uploaded_file, df, results, i, email_content, email_reports,
                   emails_sent, stored_reports, displayed, log, passes, first_report>>

ScoreNext == CallPredict \/ SelectTop5

ScoreSpec == ScoreInit /\ [][ScoreNext]_vars

-----------------------------------------------------------------------------
(* The dashboard session: Spec *)

\* the SMTP_* variables set in the environment
SmtpConfigs == {SmtpVars, SmtpVars \ {"SMTP_PASSWORD"}, {}}

Envs == [gemini_key : BOOLEAN, smtp : SmtpConfigs]

\* the CSV files the operator uploads in a session.  FileB and FileB2 share
\* the name and the number of top rows and differ in content; FileNoId has no
\* customerID column.
FileA ==
    [name |-> "a.csv", columns |-> AllColumns,
     rows |-> <<Row(1, 95), Row(2, 90), Row(3, 20), Row(4, 80), Row(5, 75), Row(6, 70)>>]

FileB ==
    [name |-> "b.csv", columns |-> AllColumns,
     rows |-> <<Row(7, 60), Row(8, 85)>>]

FileB2 ==
    [name |-> "b.csv", columns |-> AllColumns,
     rows |-> <<Row(8, 40), Row(6, 88)>>]

FileNoId ==
    [name |-> "c.csv", columns |-> AllColumns \ {"customerID"},
     rows |-> <<[email |-> Emails[1], TotalCharges |-> Raw("0"), churn_prob |-> 80]>>]

SessionFiles == {FileA, FileB, FileB2, FileNoId}

Init ==
    /\ env \in Envs
    /\ uploaded_file = NoFile
    /\ df = EmptyTable
    /\ results = EmptyTable
    /\ top_5 = EmptyTable
    /\ pc = "idle"
    /\ SessionIdle

\* line 160: the columns the top-5 view selects
DisplayColumns == {"customerID", "email", "complaint", "health_score", "Risk_Level"}

\* line 172: current_file_id = f"{uploaded_file.name}_{len(top_5)}"
current_file_id == <<uploaded_file.name, Len(top_5.rows)>>

NeverSent(key) == FALSE

\* line 174: the negation of its test, f"emails_sent_{current_file_id}" in st.session_state
already_sent(key) == key \in emails_sent

\* what the generative-AI collaborator does with one request
GenOutcomes == {"configure_raises", "generate_raises", "empty_text", "html"}

\* what the mail relay does with one session
RelayOutcomes == {"accepted", "error"}

\* generate_email(customer_data): None when configuring or generating raises,
\* else response.text
generate_email(customer_data, outcome) ==
    CASE outcome = "configure_raises" -> "None"
      [] outcome = "generate_raises"  -> "None"
      [] outcome = "empty_text"       -> ""
      [] OTHER                        -> "<html>"

\* line 190: if email_content
Truthy(content) == content # "None" /\ content # ""

SendEmailUnchecked(to_address, body, relay) ==
    [ret |-> relay = "accepted", session |-> TRUE]

\* send_email(to_address, subject, body): ret is what it returns, session
\* whether smtplib.SMTP(...) was entered
send_email(to_address, body, relay) ==
    IF ~(SmtpVars \subseteq env.smtp)
    THEN [ret |-> FALSE, session |-> FALSE]
    ELSE [ret |-> relay = "accepted", session |-> TRUE]

\* one entry of email_reports
Report(row, status) ==
    [customerID |-> row.customerID, email |-> row.email, status |-> status,
     health_score |-> row.health_score]

\* the loop of line 183 moves to the next row of top_5, or ends
LoopAdvance ==
    IF i < Len(top_5.rows)
    THEN i' = i + 1 /\ pc' = "generate"
    ELSE i' = 0 /\ pc' = "store"

\* lines 150-163: a script run with a file uploaded, up to the top-5 view
Render(f) ==
    /\ pc \in {"idle", "KeyError"}
    /\ \E out \in predict_health_scores(Table(f)) : \E t \in Top5(out.df_sorted) :
          /\ uploaded_file' = f
          /\ df' = out.df
          /\ results' = out.df_sorted
          /\ top_5' = t
          /\ pc' = IF DisplayColumns \subseteq t.columns THEN "outreach" ELSE "KeyError"
    /\ displayed' = NoReport
    /\ log' = <<>>
    /\ i' = 0
    /\ email_content' = "None"
    /\ email_reports' = <<>>
    /\ UNCHANGED <<env, emails_sent, stored_reports, passes, first_report>>

\* lines 248-249: a script run with no file uploaded
RenderEmpty ==
    /\ pc \in {"idle", "KeyError"}
    /\ uploaded_file # NoFile
    /\ uploaded_file' = NoFile
    /\ df' = EmptyTable
    /\ results' = EmptyTable
    /\ top_5' = EmptyTable
    /\ pc' = "idle"
    /\ displayed' = NoReport
    /\ log' = <<>>
    /\ i' = 0
    /\ email_content' = "None"
    /\ email_reports' = <<>>
    /\ UNCHANGED <<env, emails_sent, stored_reports, passes, first_report>>

\* lines 168-169: no GEMINI_API_KEY, the outreach block is skipped
KeyWarning ==
    /\ pc = "outreach"
    /\ ~env.gemini_key
    /\ pc' = "idle"
    /\ UNCHANGED <<env, uploaded_file, df, results, top_5, i, email_content,
                   email_reports, emails_sent, stored_reports, displayed, log,
                   passes, first_report>>

\* lines 174-183: no flag for this upload, the pass starts
StartPass ==
    /\ pc = "outreach"
    /\ env.gemini_key
    /\ ~already_sent(current_file_id)
    /\ passes[current_file_id] < MaxPasses
    /\ passes' = [passes EXCEPT ![current_file_id] = @ + 1]
    /\ email_reports' = <<>>
    /\ IF Len(top_5.rows) > 0
       THEN i' = 1 /\ pc' = "generate"
       ELSE i' = 0 /\ pc' = "store"
    /\ UNCHANGED <<env, uploaded_file, df, results, top_5, email_content,
                   emails_sent, stored_reports, displayed, log, first_report>>

\* lines 233-238: the flag is set, the recorded report is shown again
Replay ==
    /\ pc = "outreach"
    /\ env.gemini_key
    /\ already_sent(current_file_id)
    /\ displayed' = [shown |-> TRUE, replayed |-> TRUE,
                     rows |-> stored_reports[current_file_id]]
    /\ pc' = "idle"
    /\ UNCHANGED <<env, uploaded_file, df, results, top_5, i, email_content,
                   email_reports, emails_sent, stored_reports, log, passes,
                   first_report>>

\* lines 184-188: email_content = generate_email(row)
Generate ==
    /\ pc = "generate"
    /\ \E outcome \in GenOutcomes :
          LET row == top_5.rows[i]
              content == generate_email(row, outcome)
          IN  /\ email_content' = content
              /\ log' = Append(log, [call |-> "generate_email",
                                     customerID |-> row.customerID,
                                     ret |-> IF Truthy(content) THEN "message"
                                                                ELSE "no message"])
    /\ pc' = "generated"
    /\ UNCHANGED <<env, uploaded_file, df, results, top_5, i, email_reports,
                   emails_sent, stored_reports, displayed, passes, first_report>>

SendAlways ==
    /\ pc = "generated"
    /\ \E relay \in RelayOutcomes :
          LET row == top_5.rows[i]
              sent == send_email(row.email, email_content, relay)
          IN  /\ log' = log \o <<[call |-> "send_email", customerID |-> row.customerID,
                                  ret |-> IF sent.ret THEN "True" ELSE "False"]>>
                            \o (IF sent.session
                                THEN <<[call |-> "smtplib.SMTP", customerID |-> row.customerID,
                                        ret |-> relay]>>
                                ELSE <<>>)
              /\ email_reports' = Append(email_reports,
                                    Report(row, IF sent.ret THEN "Sent" ELSE "Failed"))
    /\ LoopAdvance
    /\ email_content' = "None"
    /\ UNCHANGED <<env, uploaded_file, df, results, top_5, emails_sent,
                   stored_reports, displayed, passes, first_report>>

\* lines 190-208: a message was generated; it is sent and the outcome recorded
Send ==
    /\ pc = "generated"
    /\ Truthy(email_content)
    /\ \E relay \in RelayOutcomes :
          LET row == top_5.rows[i]
              sent == send_email(row.email, email_content, relay)
          IN  /\ log' = log \o <<[call |-> "send_email", customerID |-> row.customerID,
                                  ret |-> IF sent.ret THEN "True" ELSE "False"]>>
                            \o (IF sent.session
                                THEN <<[call |-> "smtplib.SMTP", customerID |-> row.customerID,
                                        ret |-> relay]>>
                                ELSE <<>>)
              /\ email_reports' = Append(email_reports,
                                    Report(row, IF sent.ret THEN "Sent" ELSE "Failed"))
    /\ LoopAdvance
    /\ email_content' = "None"
    /\ UNCHANGED <<env, uploaded_file, df, results, top_5, emails_sent,
                   stored_reports, displayed, passes, first_report>>

GenerationFailedBreak ==
    /\ pc = "generated"
    /\ ~Truthy(email_content)
    /\ email_reports' = Append(email_reports, Report(top_5.rows[i], "Generation Failed"))
    /\ i' = 0
    /\ pc' = "store"
    /\ email_content' = "None"
    /\ UNCHANGED <<env, uploaded_file, df, results, top_5, emails_sent,
                   stored_reports, displayed, log, passes, first_report>>

\* lines 209-216: no message; Generation Failed is recorded, nothing is sent
GenerationFailed ==
    /\ pc = "generated"
    /\ ~Truthy(email_content)
    /\ email_reports' = Append(email_reports, Report(top_5.rows[i], "Generation Failed"))
    /\ LoopAdvance
    /\ email_content' = "None"
    /\ UNCHANGED <<env, uploaded_file, df, results, top_5, emails_sent,
                   stored_reports, displayed, log, passes, first_report>>

\* lines 218-231: the flag and the report are stored, the report is shown
Store ==
    /\ pc = "store"
    /\ emails_sent' = emails_sent \cup {current_file_id}
    /\ stored_reports' = [stored_reports EXCEPT ![current_file_id] = email_reports]
    /\ first_report' = IF passes[current_file_id] = 1
                       THEN [first_report EXCEPT ![current_file_id] = email_reports]
                       ELSE first_report
    /\ displayed' = [shown |-> TRUE, replayed |-> FALSE, rows |-> email_reports]
    /\ email_reports' = <<>>
    /\ pc' = "idle"
    /\ UNCHANGED <<env, uploaded_file, df, results, top_5, i, email_content, log, passes>>

Next ==
    \/ \E f \in SessionFiles : Render(f)
    \/ RenderEmpty
    \/ KeyWarning
    \/ StartPass
    \/ Replay
    \/ Generate
    \/ Send
    \/ GenerationFailed
    \/ Store

Spec == Init /\ [][Next]_vars

\* the steps of a running pass: the script is synchronous and single-threaded,
\* a pass that started is carried on until the report is stored
PassStep == Generate \/ Send \/ GenerationFailed \/ Store

FairSpec == Spec /\ WF_vars(PassStep)

-----------------------------------------------------------------------------
(* Claims *)

SmtpComplete == SmtpVars \subseteq env.smtp

InPass == pc \in {"generate", "generated", "store"}

FreshReport == displayed.shown /\ ~displayed.replayed

IsGenerate(e) == e.call = "generate_email"

GenCalls == SelectSeq(log, IsGenerate)

\* the outcomes recorded so far by the script run
ReportsNow ==
    IF InPass THEN email_reports
    ELSE IF FreshReport THEN displayed.rows
    ELSE <<>>

\* C1: per upload identity (file name + top-N row count) at most one dispatch
\* pass is ever started in a session; a run that finds the flag set makes no
\* generate_email or send_email call and shows the report the first pass
\* recorded, and the recorded report never changes.
C1_OutreachIdempotent ==
    /\ \A k \in Keys : passes[k] <= 1
    /\ \A k \in emails_sent : passes[k] = 1 /\ stored_reports[k] = first_report[k]
    /\ InPass => current_file_id \notin emails_sent
    /\ displayed.replayed =>
          /\ log = <<>>
          /\ displayed.rows = first_report[current_file_id]

C1_Witness ==
    /\ displayed.replayed
    /\ Len(displayed.rows) = TopN
    /\ \E k \in 1..TopN : displayed.rows[k].status = "Sent"

\* the pass handles top_5 in order, one customer at a time (generate, then
\* send, then record), is never stuck, and holds one outcome per row handled
PassInOrder ==
    /\ pc = "generate" => i \in 1..Len(top_5.rows) /\ Len(email_reports) = i - 1
                          /\ Len(GenCalls) = i - 1
    /\ pc = "generated" => i \in 1..Len(top_5.rows) /\ Len(email_reports) = i - 1
                           /\ Len(GenCalls) = i
    /\ pc = "store" => Len(email_reports) = Len(top_5.rows)
    /\ FreshReport => Len(displayed.rows) = Len(top_5.rows)
    /\ \A k \in 1..Len(ReportsNow) :
          ReportsNow[k].customerID = top_5.rows[k].customerID
    /\ \A k \in 1..Len(GenCalls) :
          GenCalls[k].customerID = top_5.rows[k].customerID
    /\ InPass => ENABLED (Generate \/ Send \/ GenerationFailed \/ Store)

\* C2: the pass handles top_5 in order, one customer at a time (generate,
\* then send, then record); whatever fails, a pass that started reaches the
\* last customer and ends with exactly one recorded outcome per top_5 row, in
\* top_5 order.
C2_SequentialNoAbort ==
    /\ []PassInOrder
    /\ InPass ~> (FreshReport /\ Len(displayed.rows) = Len(top_5.rows))

C2_Witness ==
    /\ FreshReport
    /\ Len(displayed.rows) = TopN
    /\ displayed.rows[1].status = "Generation Failed"
    /\ displayed.rows[2].status = "Failed"
    /\ displayed.rows[TopN].status = "Sent"

\* C3: send_email is called only right after a generate_email call for the
\* same customer that returned a non-empty message; a customer whose
\* generation returned no message gets no send_email call and the status
\* Generation Failed (and only such a customer gets that status).
C3_NoSendWithoutMessage ==
    /\ \A k \in 1..Len(log) :
          log[k].call = "send_email" =>
             /\ k > 1
             /\ log[k - 1].call = "generate_email"
             /\ log[k - 1].customerID = log[k].customerID
             /\ log[k - 1].ret = "message"
    /\ Len(ReportsNow) <= Len(GenCalls)
    /\ \A k \in 1..Len(ReportsNow) :
          /\ GenCalls[k].customerID = ReportsNow[k].customerID
          /\ GenCalls[k].ret = "no message" <=> ReportsNow[k].status = "Generation Failed"
          /\ GenCalls[k].ret = "no message" =>
                \A j \in 1..Len(log) :
                   ~(log[j].call = "send_email"
                     /\ log[j].customerID = ReportsNow[k].customerID)

C3_Witness ==
    /\ FreshReport
    /\ Len(displayed.rows) = TopN
    /\ displayed.rows[1].status = "Generation Failed"
    /\ displayed.rows[2].status = "Sent"
    /\ Len(log) = 2 * TopN + 3

\* C4 as stated: with an incomplete mail-relay configuration the delivery
\* report lists every targeted customer with status Failed (to send).
C4_AllFailedToSend ==
    (~SmtpComplete /\ displayed.shown) =>
        /\ Len(displayed.rows) = Len(top_5.rows)
        /\ \A k \in 1..Len(displayed.rows) : displayed.rows[k].status = "Failed"

\* C4 amended: with an incomplete mail-relay configuration no relay session
\* is opened and every send_email call returns False; the report lists every
\* targeted customer, with status Failed when a message was generated for
\* the customer and Generation Failed when none was, and never Sent.
C4_FailedOrGenerationFailed ==
    ~SmtpComplete =>
        /\ \A k \in 1..Len(log) :
              /\ log[k].call # "smtplib.SMTP"
              /\ log[k].call = "send_email" => log[k].ret = "False"
        /\ \A k \in Keys : \A j \in 1..Len(stored_reports[k]) :
              stored_reports[k][j].status \in {"Failed", "Generation Failed"}
        /\ FreshReport =>
              /\ Len(displayed.rows) = Len(top_5.rows)
              /\ \A k \in 1..Len(displayed.rows) :
                    /\ displayed.rows[k].customerID = top_5.rows[k].customerID
                    /\ displayed.rows[k].status =
                          IF GenCalls[k].ret = "message" THEN "Failed"
                          ELSE "Generation Failed"

C4_Witness ==
    /\ ~SmtpComplete
    /\ env.smtp # {}
    /\ FreshReport
    /\ Len(displayed.rows) = TopN
    /\ \A k \in 1..TopN : displayed.rows[k].status = "Failed"

\* C5: health_score = 1 - p, and Risk_Level is High Risk iff
\* health_score <= 0.3, Medium Risk iff 0.3 < health_score <= 0.7, Healthy
\* iff health_score > 0.7: every score in [0,1] gets exactly one tier.
C5_RiskTiers ==
    pc # "parsed" =>
        \A k \in 1..Len(results.rows) :
            LET r == results.rows[k]
            IN  /\ r.health_score = Scale - r.churn_prob
                /\ r.health_score \in 0..Scale
                /\ r.Risk_Level \in {"High Risk", "Medium Risk", "Healthy"}
                /\ r.Risk_Level = "High Risk" <=> r.health_score <= 30
                /\ r.Risk_Level = "Medium Risk" <=>
                      (30 < r.health_score /\ r.health_score <= 70)
                /\ r.Risk_Level = "Healthy" <=> r.health_score > 70

C5_Witness ==
    /\ pc = "scored"
    /\ Len(results.rows) = MaxRows
    /\ \E k \in 1..Len(results.rows) :
          results.rows[k].health_score = 30 /\ results.rows[k].Risk_Level = "High Risk"
    /\ \E k \in 1..Len(results.rows) :
          results.rows[k].health_score = 90 /\ results.rows[k].Risk_Level = "Healthy"

\* C6: the returned table holds each of the N input records exactly once, its
\* Rank values are 1..N, each once, and Rank(a) < Rank(b) implies
\* health_score(a) <= health_score(b).
C6_RankPermutation ==
    pc # "parsed" =>
        LET n == Len(uploaded_file.rows)
            rs == results.rows
        IN  /\ Len(rs) = n
            /\ \A k \in 1..n :
                  Cardinality({j \in 1..Len(rs) :
                      /\ rs[j].customerID = uploaded_file.rows[k].customerID
                      /\ rs[j].email = uploaded_file.rows[k].email
                      /\ rs[j].churn_prob = uploaded_file.rows[k].churn_prob}) = 1
            /\ {rs[j].Rank : j \in 1..Len(rs)} = 1..n
            /\ \A a, b \in 1..Len(rs) :
                  /\ a # b => rs[a].Rank # rs[b].Rank
                  /\ rs[a].Rank < rs[b].Rank => rs[a].health_score <= rs[b].health_score
            /\ \A a \in 1..Len(rs) :
                  rs[a].Rank = 1 => \A b \in 1..Len(rs) : rs[a].health_score <= rs[b].health_score

C6_Witness ==
    /\ pc = "scored"
    /\ Len(results.rows) = MaxRows
    /\ uploaded_file.rows[1].churn_prob < uploaded_file.rows[2].churn_prob
    /\ results.rows[1].health_score = results.rows[2].health_score
    /\ results.rows[1].customerID # uploaded_file.rows[1].customerID

C8_SynthesizedCustomerId ==
    (uploaded_file # NoFile /\ "customerID" \notin uploaded_file.columns) =>
        /\ pc # "KeyError"
        /\ "customerID" \in results.columns
        /\ "customerID" \in top_5.columns

\* C9: a displayed delivery report, fresh or replayed, holds exactly one
\* attempt for each top-N record of the upload on screen and none for another
\* customer, each with that record's health_score.
C9_ReportMatchesUpload ==
    displayed.shown =>
        /\ Len(displayed.rows) = Len(top_5.rows)
        /\ {<<displayed.rows[k].customerID, displayed.rows[k].health_score>> :
                k \in 1..Len(displayed.rows)}
              = {<<top_5.rows[k].customerID, top_5.rows[k].health_score>> :
                    k \in 1..Len(top_5.rows)}

\* C10: predict_health_scores leaves the caller's table as it was: same
\* columns, same cells, the TotalCharges values included.
C10_InputUnchanged ==
    pc # "parsed" => df = Table(uploaded_file)

====
